---- MODULE Spec2Model ----
(***************************************************************************)
(* Model of server/services/nlp_query_processor.py: the natural-language   *)
(* query processor (HealthcareNLQueryProcessor.process_query,              *)
(* execute_query, the mock result tables, create_mock_response,            *)
(* parse_natural_response) and the entry point main.                       *)
(*                                                                         *)
(* Representation.                                                         *)
(*  - A Python dict / JSON object is a function from its keys (strings);   *)
(*    an absent key is absent from the DOMAIN.  Python None / JSON null is *)
(*    the value None.                                                      *)
(*  - A JSON document is [kind, obj]: kind is "object", "array" or         *)
(*    "scalar"; obj is the dict of an object.                              *)
(*  - A text returned by the language model is either JSON text, written   *)
(*    as the document it denotes ([json |-> TRUE, doc |-> ...]), or text   *)
(*    that json.loads rejects, written as its characters                   *)
(*    ([json |-> FALSE, chars |-> <<...>>]).                               *)
(*  - An f-string is the tuple of its parts.  Percentages are in tenths.   *)
(*  - Each task is one invocation of main; asyncio runs a task without     *)
(*    interleaving up to its only await (chat.send_message), so a task has *)
(*    two steps: up to the await, and from the upstream outcome to the end.*)
(***************************************************************************)
EXTENDS Integers, Sequences, FiniteSets, TLC

\* Number of concurrent invocations modelled.
NumTasks == 2
\* Largest measured upstream latency, in milliseconds.
MaxElapsed == 1

Tasks == 1..NumTasks

None == "<None>"

VARIABLES
    openai_api_key,   \* self.openai_api_key: os.getenv('OPENAI_API_KEY')
    system_message,   \* self.system_message
    pc,               \* per task: "init", "awaiting" (suspended in send_message), "done"
    argv,             \* per task: the command line argument of main
    query_data,       \* per task: json.loads(sys.argv[1])
    chat,             \* per task: the message handed to chat.send_message
    calls,            \* per task: number of send_message calls issued
    reply,            \* per task: the outcome send_message produced
    pq,               \* per task: process_query "idle", "suspended", "returned", "raised"
    result,           \* per task: the dict process_query returned
    raised,           \* per task: the exception that escaped process_query, or None
    path,             \* per task: the return statement that produced the response
    stdout,           \* per task: the objects main printed
    exit_code         \* per task: sys.exit status, None when main returned normally

vars == <<openai_api_key, system_message, pc, argv, query_data, chat, calls,
          reply, pq, result, raised, path, stdout, exit_code>>

-----------------------------------------------------------------------------
\* Python dict operations.

\* key in d
Has(d, k) == k \in DOMAIN d

\* d.get(k, default)
Get(d, k, default) == IF k \in DOMAIN d THEN d[k] ELSE default

\* d[k] = v
Put(d, k, v) == [f \in (DOMAIN d) \cup {k} |-> IF f = k THEN v ELSE d[f]]

EmptyDict == <<>>

\* f"{execution_time:.0f}ms"
fmt_ms(execution_time) == <<execution_time, "ms">>

-----------------------------------------------------------------------------
\* The mock result tables and charts.

get_mock_patient_search_results ==
    << [ageRange |-> "25-35", count |-> 15, percentage |-> 300],
       [ageRange |-> "36-45", count |-> 20, percentage |-> 400],
       [ageRange |-> "46-55", count |-> 10, percentage |-> 200],
       [ageRange |-> "56-65", count |-> 5,  percentage |-> 100] >>

get_mock_medical_analysis_results ==
    << [condition |-> "High Blood Pressure", count |-> 25, percentage |-> 155],
       [condition |-> "Diabetes",            count |-> 18, percentage |-> 112],
       [condition |-> "Heart Disease",       count |-> 12, percentage |-> 75],
       [condition |-> "Respiratory Issues",  count |-> 8,  percentage |-> 50] >>

get_mock_compliance_results ==
    << [status |-> "Completed",   count |-> 145, percentage |-> 853],
       [status |-> "In Progress", count |-> 18,  percentage |-> 106],
       [status |-> "Incomplete",  count |-> 7,   percentage |-> 41] >>

get_mock_risk_assessment_results ==
    << [riskLevel |-> "High",   count |-> 8,
        conditions |-> <<"Multiple medical alerts", "Working at heights">>],
       [riskLevel |-> "Medium", count |-> 22,
        conditions |-> <<"Single medical condition">>],
       [riskLevel |-> "Low",    count |-> 120,
        conditions |-> <<"No significant risks">>] >>

get_mock_operational_results ==
    << [examinationType |-> "Pre-Employment", avgTime |-> "45 minutes", count |-> 85],
       [examinationType |-> "Periodic",       avgTime |-> "35 minutes", count |-> 62],
       [examinationType |-> "Exit",           avgTime |-> "25 minutes", count |-> 23] >>

get_mock_medical_charts ==
    << [type |-> "pie", title |-> "Medical Conditions Distribution",
        data |-> << [label |-> "High Blood Pressure", value |-> 25],
                    [label |-> "Diabetes",            value |-> 18],
                    [label |-> "Heart Disease",       value |-> 12],
                    [label |-> "Other",               value |-> 30] >>] >>

\* A variant of the compliance chart whose Completed bucket was not updated
\* with the table (120 for 145).
get_mock_compliance_charts_stale ==
    << [type |-> "bar", title |-> "Questionnaire Completion Status",
        data |-> << [label |-> "Completed",   value |-> 120],
                    [label |-> "In Progress", value |-> 18],
                    [label |-> "Incomplete",  value |-> 7] >>] >>

get_mock_compliance_charts ==
    << [type |-> "bar", title |-> "Questionnaire Completion Status",
        data |-> << [label |-> "Completed",   value |-> 145],
                    [label |-> "In Progress", value |-> 18],
                    [label |-> "Incomplete",  value |-> 7] >>] >>

get_mock_operational_charts ==
    << [type |-> "line", title |-> "Average Examination Time by Type",
        data |-> << [label |-> "Pre-Employment", value |-> 45],
                    [label |-> "Periodic",       value |-> 35],
                    [label |-> "Exit",           value |-> 25] >>] >>

-----------------------------------------------------------------------------
\* A variant of execute_query that installs a mock table only when the
\* upstream reply brought no results of its own.
execute_query_keep_upstream(ai_result, qd) ==
    LET query_type == Get(ai_result, "queryType", "UNKNOWN")
        WithResults(rows) ==
            IF Get(ai_result, "results", <<>>) # <<>>
            THEN ai_result
            ELSE Put(Put(ai_result, "results", rows), "resultCount", Len(rows))
    IN  CASE query_type = "PATIENT_SEARCH" ->
                WithResults(get_mock_patient_search_results)
          [] query_type = "MEDICAL_ANALYSIS" ->
                Put(WithResults(get_mock_medical_analysis_results),
                    "charts", get_mock_medical_charts)
          [] query_type = "COMPLIANCE_REPORTING" ->
                Put(WithResults(get_mock_compliance_results),
                    "charts", get_mock_compliance_charts)
          [] query_type = "RISK_ASSESSMENT" ->
                WithResults(get_mock_risk_assessment_results)
          [] query_type = "OPERATIONAL_INSIGHTS" ->
                Put(WithResults(get_mock_operational_results),
                    "charts", get_mock_operational_charts)
          [] OTHER -> ai_result

\* execute_query(ai_result, query_data): the branch on queryType.  The
\* try body only reads a dict and assigns keys, so its except clause is
\* never entered.
execute_query(ai_result, qd) ==
    LET query_type == Get(ai_result, "queryType", "UNKNOWN")
        WithResults(rows) ==
            Put(Put(ai_result, "results", rows), "resultCount", Len(rows))
    IN  CASE query_type = "PATIENT_SEARCH" ->
                WithResults(get_mock_patient_search_results)
          [] query_type = "MEDICAL_ANALYSIS" ->
                Put(WithResults(get_mock_medical_analysis_results),
                    "charts", get_mock_medical_charts)
          [] query_type = "COMPLIANCE_REPORTING" ->
                Put(WithResults(get_mock_compliance_results),
                    "charts", get_mock_compliance_charts)
          [] query_type = "RISK_ASSESSMENT" ->
                WithResults(get_mock_risk_assessment_results)
          [] query_type = "OPERATIONAL_INSIGHTS" ->
                Put(WithResults(get_mock_operational_results),
                    "charts", get_mock_operational_charts)
          [] OTHER -> ai_result

-----------------------------------------------------------------------------
\* The envelopes built by process_query and main.

\* Length above which parse_natural_response truncates the summary.
SummaryLimit == 200

\* create_mock_response(query, error_msg)
create_mock_response(query, error_msg) ==
    [success        |-> FALSE,
     error          |-> error_msg,
     interpretation |-> <<"Unable to process query: ", query>>,
     queryType      |-> "UNKNOWN",
     mongoQuery     |-> EmptyDict,
     sqlQuery       |-> "",
     results        |-> <<>>,
     resultCount    |-> 0,
     executionTime  |-> <<0, "ms">>,
     summary        |-> "AI service not configured. Please set OPENAI_API_KEY environment variable.",
     charts         |-> <<>>,
     suggestions    |-> <<"Set up OpenAI API key to enable natural language queries",
                          "Try using the manual query interface",
                          "Contact administrator for assistance">>]

\* A variant of parse_natural_response that truncates from SummaryLimit
\* characters on (`>=` for `>`).
parse_natural_response_early(response, query, execution_time) ==
    [success        |-> TRUE,
     interpretation |-> <<"AI interpretation of: ", query>>,
     queryType      |-> "GENERAL",
     mongoQuery     |-> EmptyDict,
     sqlQuery       |-> "",
     results        |-> << [response |-> response] >>,
     resultCount    |-> 1,
     executionTime  |-> fmt_ms(execution_time),
     summary        |-> IF Len(response) >= SummaryLimit
                        THEN SubSeq(response, 1, SummaryLimit) \o <<".", ".", ".">>
                        ELSE response,
     charts         |-> <<>>,
     suggestions    |-> <<"Try a more specific query", "Ask about patient statistics">>]

\* A variant of parse_natural_response that reports the text in the summary
\* only and leaves the result list empty.
parse_natural_response_no_record(response, query, execution_time) ==
    [success        |-> TRUE,
     interpretation |-> <<"AI interpretation of: ", query>>,
     queryType      |-> "GENERAL",
     mongoQuery     |-> EmptyDict,
     sqlQuery       |-> "",
     results        |-> <<>>,
     resultCount    |-> 0,
     executionTime  |-> fmt_ms(execution_time),
     summary        |-> response,
     charts         |-> <<>>,
     suggestions    |-> <<"Try a more specific query", "Ask about patient statistics">>]

\* parse_natural_response(response, query, execution_time); response is the
\* character sequence of the upstream text.
parse_natural_response(response, query, execution_time) ==
    [success        |-> TRUE,
     interpretation |-> <<"AI interpretation of: ", query>>,
     queryType      |-> "GENERAL",
     mongoQuery     |-> EmptyDict,
     sqlQuery       |-> "",
     results        |-> << [response |-> response] >>,
     resultCount    |-> 1,
     executionTime  |-> fmt_ms(execution_time),
     summary        |-> IF Len(response) > SummaryLimit
                        THEN SubSeq(response, 1, SummaryLimit) \o <<".", ".", ".">>
                        ELSE response,
     charts         |-> <<>>,
     suggestions    |-> <<"Try a more specific query", "Ask about patient statistics">>]

\* A variant of the except clause that reports the failure without
\* suggestions.
process_query_failure_bare(e, query) ==
    [success        |-> FALSE,
     error          |-> e,
     interpretation |-> <<"Failed to process query: ", query>>,
     suggestions    |-> <<>>]

\* The dict returned by the except clause of process_query; e is str(e).
process_query_failure(e, query) ==
    [success        |-> FALSE,
     error          |-> e,
     interpretation |-> <<"Failed to process query: ", query>>,
     suggestions    |-> <<"Try rephrasing your question", "Use simpler medical terms">>]

\* error_result of main's except clause; e is str(e).
main_error_result(e) ==
    [success        |-> FALSE,
     error          |-> e,
     interpretation |-> "Failed to process query",
     suggestions    |-> <<"Check query format", "Try again later">>]

\* The object main prints when sys.argv holds no argument.
main_no_argument == [error |-> "No query data provided"]

\* json.dumps(obj, default=str): the JSON text of a dict, written as the
\* document it denotes.
json_dumps(obj) == [json |-> TRUE, doc |-> [kind |-> "object", obj |-> obj]]

\* A variant of the credential test that takes only an unset variable for
\* missing (`is None` for `not`).
api_key_missing_unset_only(key) == key = None

\* not self.openai_api_key: None and the empty string are falsy.
api_key_missing(key) == key = None \/ key = ""

-----------------------------------------------------------------------------
\* process_query, in its two runs: up to the await, and after it.

\* Lines 89-122.  query_data['query'] raises TypeError (query_data is not a
\* dict) or KeyError (no such key); the except clause then formats its
\* message with the local `query`, which was never bound, and the
\* UnboundLocalError it raises there leaves process_query.
process_query_begin(qd, key, sysmsg) ==
    IF qd.kind # "object" \/ ~Has(qd.obj, "query")
    THEN [step |-> "raise",
          exc  |-> "cannot access local variable 'query' where it is not associated with a value"]
    ELSE LET query     == qd.obj["query"]
             user_role == Get(qd.obj, "userRole", "staff")
         IN  IF api_key_missing(key)
             THEN [step  |-> "return", via |-> "mock",
                   value |-> create_mock_response(query, "OpenAI API key not configured")]
             ELSE [step    |-> "await",
                   message |-> [api_key        |-> key,
                                session_id     |-> <<"nlq_", Get(qd.obj, "requestId", "default")>>,
                                system_message |-> sysmsg,
                                text           |-> <<query, user_role>>]]

\* Lines 122-145.  outcome is what send_message did: raised an exception, or
\* returned a text.
process_query_resume(qd, outcome, execution_time) ==
    LET query == qd.obj["query"]
    IN  IF outcome.raises
        THEN [step |-> "return", via |-> "exception",
              value |-> process_query_failure(outcome.exc, query)]
        ELSE IF ~outcome.text.json
        THEN \* json.JSONDecodeError
             [step |-> "return", via |-> "fallback",
              value |-> parse_natural_response(outcome.text.chars, query, execution_time)]
        ELSE IF outcome.text.doc.kind # "object"
        THEN \* result['executionTime'] = ... on a list, str, number or None
             \* raises TypeError, which is no json.JSONDecodeError
             [step |-> "return", via |-> "exception",
              value |-> process_query_failure(
                           IF outcome.text.doc.kind = "array"
                           THEN "list indices must be integers or slices, not str"
                           ELSE "'int' object does not support item assignment",
                           query)]
        ELSE [step |-> "return", via |-> "structured",
              value |-> execute_query(Put(outcome.text.doc.obj, "executionTime",
                                          fmt_ms(execution_time)), qd)]

-----------------------------------------------------------------------------
\* The inputs: environments, command line arguments and upstream outcomes.

\* os.getenv('OPENAI_API_KEY'): unset, empty, or a key.
ApiKeys == <<None, "", "sk-test">>

\* sys.argv[1], by what json.loads makes of it.  "absent": no argument;
\* "invalid": json.loads raises; otherwise the document.
Argvs ==
    << [kind |-> "absent",  obj |-> EmptyDict],
       [kind |-> "invalid", obj |-> EmptyDict],
       [kind |-> "array",   obj |-> EmptyDict],
       [kind |-> "object",  obj |-> [userRole |-> "doctor", requestId |-> "r0"]],
       [kind |-> "object",  obj |-> [query |-> "list patient names",
                                     userRole |-> "admin", requestId |-> "r1"]],
       [kind |-> "object",  obj |-> [query |-> "how many patients have diabetes"]] >>

\* Rows naming individual patients, as an upstream reply may hold them.
PatientRows ==
    << [firstName |-> "Thabo", surname |-> "Nkosi", idNumber |-> "8001015009087"],
       [firstName |-> "Anna",  surname |-> "Botha", idNumber |-> "9202204720082"] >>

UpstreamChart ==
    << [type |-> "bar", title |-> "Patients",
        data |-> << [label |-> "Thabo Nkosi", value |-> 1] >>] >>

\* A reply that follows the RESPONSE FORMAT of the system message.
FormatReply(query_type, mongo_query, rows, count, charts) ==
    [success        |-> TRUE,
     interpretation |-> <<"Clear explanation of what the query asks">>,
     queryType      |-> query_type,
     mongoQuery     |-> mongo_query,
     sqlQuery       |-> "SELECT ...",
     results        |-> rows,
     resultCount    |-> count,
     executionTime  |-> <<0, "ms">>,
     summary        |-> <<"B", "r", "i", "e", "f">>,
     charts         |-> charts,
     suggestions    |-> <<"Follow-up question 1", "Follow-up question 2">>]

MongoA == [collection |-> "patients", query |-> "age > 40", projection |-> None]
MongoB == [collection |-> "questionnaires", query |-> "completed = false", projection |-> None]

JsonObject(obj) == [raises |-> FALSE, text |-> [json |-> TRUE, doc |-> [kind |-> "object", obj |-> obj]]]
JsonOther(kind) == [raises |-> FALSE, text |-> [json |-> TRUE, doc |-> [kind |-> kind, obj |-> EmptyDict]]]
PlainText(chars) == [raises |-> FALSE, text |-> [json |-> FALSE, chars |-> chars]]
Raises(exc) == [raises |-> TRUE, exc |-> exc]

\* A text of n characters that json.loads rejects: letters, the last one "z".
Prose(n) == [i \in 1..n |-> IF i = n THEN "z" ELSE IF i % 2 = 1 THEN "a" ELSE "b"]

\* What chat.send_message may do.
Outcomes ==
    << Raises("upstream unreachable"),
       Raises(""),
       PlainText(<<"S", "o", "r", "r", "y">>),
       PlainText(<<"I", "D", " ", "8", "0", "0", "1", "0", "1", "5", "0", "0",
                   "9", "0", "8", "7">>),
       PlainText(Prose(SummaryLimit)),
       PlainText(Prose(SummaryLimit + 1)),
       JsonOther("array"),
       JsonOther("scalar"),
       JsonObject(FormatReply("PATIENT_SEARCH", MongoA, PatientRows, 2, <<>>)),
       JsonObject(FormatReply("PATIENT_SEARCH", MongoB, SubSeq(PatientRows, 1, 1), 1, <<>>)),
       JsonObject(FormatReply("MEDICAL_ANALYSIS", MongoA, <<>>, 0, <<>>)),
       JsonObject(FormatReply("COMPLIANCE_REPORTING", MongoA, <<>>, 0, <<>>)),
       JsonObject(FormatReply("RISK_ASSESSMENT", MongoA, <<>>, 0, UpstreamChart)),
       JsonObject(FormatReply("OPERATIONAL_INSIGHTS", MongoA, <<>>, 0, <<>>)),
       JsonObject(FormatReply("GENERAL", MongoA, PatientRows, 0, UpstreamChart)),
       JsonObject(Put(FormatReply("UNKNOWN", MongoA, <<>>, 0, <<>>),
                      "error", "partial failure")),
       JsonObject([success |-> FALSE]) >>

NoOutcome == [raises |-> FALSE, text |-> [json |-> FALSE, chars |-> <<>>]]
NoMessage == EmptyDict

-----------------------------------------------------------------------------
\* The state machine.

\* The system message __init__ builds (abridged).
SystemMessage == "You are a healthcare data query assistant ..."

Init ==
    /\ \E k \in 1..Len(ApiKeys) : openai_api_key = ApiKeys[k]
    /\ system_message = SystemMessage
    /\ pc = [t \in Tasks |-> "init"]
    /\ argv = [t \in Tasks |-> Argvs[1]]
    /\ query_data = [t \in Tasks |-> Argvs[1]]
    /\ chat = [t \in Tasks |-> NoMessage]
    /\ calls = [t \in Tasks |-> 0]
    /\ reply = [t \in Tasks |-> NoOutcome]
    /\ pq = [t \in Tasks |-> "idle"]
    /\ result = [t \in Tasks |-> EmptyDict]
    /\ raised = [t \in Tasks |-> None]
    /\ path = [t \in Tasks |-> None]
    /\ stdout = [t \in Tasks |-> <<>>]
    /\ exit_code = [t \in Tasks |-> None]

\* main, lines 308-330, once process_query has returned or raised without
\* suspending, or after it resumed: print the result, or the error_result of
\* the except clause.
main_print(r) ==
    IF r.step = "raise"
    THEN json_dumps(main_error_result(r.exc))
    ELSE json_dumps(r.value)

\* A variant that keeps the response in one place shared by all invocations
\* (as a field of the processor would be) instead of the coroutine's local.
Finish_shared(t, r) ==
    /\ pc' = [pc EXCEPT ![t] = "done"]
    /\ pq' = [pq EXCEPT ![t] = IF r.step = "raise" THEN "raised" ELSE "returned"]
    /\ result' = [u \in Tasks |-> IF r.step = "raise" THEN EmptyDict ELSE r.value]
    /\ raised' = [raised EXCEPT ![t] = IF r.step = "raise" THEN r.exc ELSE None]
    /\ path' = [path EXCEPT ![t] = IF r.step = "raise" THEN "main_except" ELSE r.via]
    /\ stdout' = [stdout EXCEPT ![t] = Append(@, main_print(r))]

\* The effect on task t of process_query ending with r (a return or a raise).
Finish(t, r) ==
    /\ pc' = [pc EXCEPT ![t] = "done"]
    /\ pq' = [pq EXCEPT ![t] = IF r.step = "raise" THEN "raised" ELSE "returned"]
    /\ result' = [result EXCEPT ![t] = IF r.step = "raise" THEN EmptyDict ELSE r.value]
    /\ raised' = [raised EXCEPT ![t] = IF r.step = "raise" THEN r.exc ELSE None]
    /\ path' = [path EXCEPT ![t] = IF r.step = "raise" THEN "main_except" ELSE r.via]
    /\ stdout' = [stdout EXCEPT ![t] = Append(@, main_print(r))]

\* main from its start to the await in process_query, or to its end when
\* process_query is not reached or does not suspend.
MainStart(t) ==
    /\ pc[t] = "init"
    /\ \E a \in 1..Len(Argvs) :
         LET arg == Argvs[a]
             r   == process_query_begin(arg, openai_api_key, system_message)
         IN  /\ argv' = [argv EXCEPT ![t] = arg]
             /\ IF arg.kind = "absent"
                THEN \* len(sys.argv) < 2: print and sys.exit(1)
                     /\ stdout' = [stdout EXCEPT ![t] = Append(@, json_dumps(main_no_argument))]
                     /\ exit_code' = [exit_code EXCEPT ![t] = 1]
                     /\ pc' = [pc EXCEPT ![t] = "done"]
                     /\ path' = [path EXCEPT ![t] = "main_no_argument"]
                     /\ UNCHANGED <<query_data, chat, calls, pq, result, raised>>
                ELSE IF arg.kind = "invalid"
                THEN \* json.loads(sys.argv[1]) raises
                     /\ stdout' = [stdout EXCEPT ![t] =
                           Append(@, json_dumps(main_error_result("Expecting value: line 1 column 1 (char 0)")))]
                     /\ pc' = [pc EXCEPT ![t] = "done"]
                     /\ path' = [path EXCEPT ![t] = "main_except"]
                     /\ UNCHANGED <<query_data, chat, calls, pq, result, raised, exit_code>>
                ELSE IF r.step = "await"
                THEN /\ query_data' = [query_data EXCEPT ![t] = arg]
                     /\ chat' = [chat EXCEPT ![t] = r.message]
                     /\ calls' = [calls EXCEPT ![t] = @ + 1]
                     /\ pq' = [pq EXCEPT ![t] = "suspended"]
                     /\ pc' = [pc EXCEPT ![t] = "awaiting"]
                     /\ UNCHANGED <<result, raised, path, stdout, exit_code>>
                ELSE /\ query_data' = [query_data EXCEPT ![t] = arg]
                     /\ Finish(t, r)
                     /\ UNCHANGED <<chat, calls, exit_code>>
    /\ UNCHANGED <<openai_api_key, system_message, reply>>

\* A variant that sends the message once more when the call raised or the
\* text was not JSON.
calls_after_outcome_retry(outcome) ==
    IF outcome.raises \/ ~outcome.text.json THEN 1 ELSE 0

\* The send_message calls process_query issues once the first completed:
\* lines 123-145 hold no loop and no second send_message, whatever the
\* outcome.
calls_after_outcome(outcome) == 0

\* chat.send_message completes for task t: process_query resumes and main
\* runs to its end.
UpstreamCompletes(t) ==
    /\ pc[t] = "awaiting"
    /\ \E o \in 1..Len(Outcomes), execution_time \in 0..MaxElapsed :
         /\ reply' = [reply EXCEPT ![t] = Outcomes[o]]
         /\ calls' = [calls EXCEPT ![t] = @ + calls_after_outcome(Outcomes[o])]
         /\ Finish(t, process_query_resume(query_data[t], Outcomes[o], execution_time))
    /\ UNCHANGED <<openai_api_key, system_message, argv, query_data, chat, exit_code>>

Next == \E t \in Tasks : MainStart(t) \/ UpstreamCompletes(t)

Spec == Init /\ [][Next]_vars

-----------------------------------------------------------------------------
\* Vocabulary of the properties.

\* process_query returned a dict to main.
Returned(t) == pq[t] = "returned"

\* send_message completed for task t and main ran to its end.
Replied(t) == pc[t] = "done" /\ calls[t] > 0

\* The i-th object task t printed.
Printed(t, i) == stdout[t][i].doc.obj

\* The keys of QueryResult as the code names them (mongoQuery is the query
\* spec); error apart, which may be null.
SchemaKeys ==
    {"success", "interpretation", "queryType", "mongoQuery", "results",
     "resultCount", "executionTime", "summary", "charts", "suggestions"}

\* The five query types execute_query routes.
RoutedTypes ==
    {"PATIENT_SEARCH", "MEDICAL_ANALYSIS", "COMPLIANCE_REPORTING",
     "RISK_ASSESSMENT", "OPERATIONAL_INSIGHTS"}

\* Fields of the patients and users collections that identify a person.
IdentifierFields == {"firstName", "surname", "lastName", "idNumber", "email"}

Digits == {"0", "1", "2", "3", "4", "5", "6", "7", "8", "9"}

\* A text holds a national ID number: thirteen digits in a row.
HoldsIdNumber(chars) ==
    \E i \in 1..(Len(chars) - 12) : \A j \in i..(i + 12) : chars[j] \in Digits

\* A result record carries a direct patient identifier.
HasDirectIdentifier(row) ==
    \/ (DOMAIN row) \cap IdentifierFields # {}
    \/ Has(row, "response") /\ HoldsIdNumber(row["response"])

\* An upstream text that does not conform to the QueryResult structure.
NonConforming(text) ==
    \/ ~text.json
    \/ text.doc.kind # "object"
    \/ ~(SchemaKeys \subseteq DOMAIN text.doc.obj)

-----------------------------------------------------------------------------
\* Properties.

\* C1: in every response process_query returns, resultCount equals the
\* number of elements of results (an absent key read as 0, as the empty list).
ResultCountMatchesResults ==
    \A t \in Tasks :
        Returned(t) =>
            Get(result[t], "resultCount", 0) = Len(Get(result[t], "results", <<>>))

\* C2: in every response process_query returns, error is non-null if and
\* only if success is false.
ErrorIffNotSuccess ==
    \A t \in Tasks :
        Returned(t) =>
            ((Get(result[t], "error", None) # None)
                <=> (Has(result[t], "success") /\ result[t]["success"] = FALSE))

\* C3: for every request mapping process_query returns rather than raises,
\* and main prints exactly one object per invocation.
NoFaultEscapes ==
    \A t \in Tasks :
        /\ argv[t].kind = "object" => pq[t] # "raised"
        /\ pc[t] = "done" => Len(stdout[t]) = 1

\* C4: every object returned by process_query or printed by main carries
\* all the keys of QueryResult (error may be absent, read as null).
EveryResponseSchemaValid ==
    \A t \in Tasks :
        /\ Returned(t) => SchemaKeys \subseteq DOMAIN result[t]
        /\ \A i \in 1..Len(stdout[t]) : SchemaKeys \subseteq DOMAIN Printed(t, i)

\* C5: with the credential absent (unset or empty), no call to the language
\* model is made, and for every request the response, as returned by
\* process_query and as printed by main, has success false and a non-empty
\* suggestions list.
MissingCredentialFails ==
    \A t \in Tasks :
        openai_api_key \in {None, ""} =>
            /\ calls[t] = 0
            /\ pc[t] # "awaiting"
            /\ Returned(t) =>
                  /\ result[t]["success"] = FALSE
                  /\ Len(result[t]["suggestions"]) > 0
            /\ argv[t].kind # "absent" =>
                  \A i \in 1..Len(stdout[t]) :
                      /\ Printed(t, i)["success"] = FALSE
                      /\ Len(Printed(t, i)["suggestions"]) > 0

\* C5 witness: with an empty credential, a request with a query text was
\* answered by the missing credential response and main printed it.
MissingCredentialWitness ==
    \E t \in Tasks :
        /\ openai_api_key = ""
        /\ Returned(t)
        /\ path[t] = "mock"
        /\ Has(query_data[t].obj, "query")
        /\ Len(stdout[t]) = 1

\* C6: whenever json.loads rejects the upstream text, the response is the
\* fallback envelope: success, GENERAL, the single record holding the raw
\* text, resultCount 1 and no charts.
DecodeFailureYieldsFallback ==
    \A t \in Tasks :
        (Replied(t) /\ ~reply[t].raises /\ ~reply[t].text.json) =>
            /\ Returned(t)
            /\ result[t]["success"] = TRUE
            /\ result[t]["queryType"] = "GENERAL"
            /\ result[t]["results"] = << [response |-> reply[t].text.chars] >>
            /\ result[t]["resultCount"] = 1
            /\ result[t]["charts"] = <<>>

\* C6 witness: a non-JSON upstream text was answered.
DecodeFailureWitness ==
    \E t \in Tasks :
        /\ Replied(t)
        /\ ~reply[t].raises
        /\ ~reply[t].text.json
        /\ Len(reply[t].text.chars) > 0
        /\ path[t] = "fallback"
        /\ Len(stdout[t]) = 1

\* C7: whenever the upstream text does not conform to the QueryResult
\* structure (not JSON, JSON that is no object, an object missing fields),
\* the response has success true and comes from the fallback path.
NonConformingIsFallback ==
    \A t \in Tasks :
        (Replied(t) /\ ~reply[t].raises /\ NonConforming(reply[t].text)) =>
            /\ Returned(t)
            /\ Has(result[t], "success") /\ result[t]["success"] = TRUE
            /\ path[t] = "fallback"

\* C8: a request asking to list patient names makes no upstream call and is
\* answered with success false, no results and a non-null error.
IdentifiableRequestDenied ==
    \A t \in Tasks :
        (argv[t].kind = "object" /\ Has(argv[t].obj, "query")
            /\ argv[t].obj["query"] = "list patient names") =>
            /\ calls[t] = 0
            /\ \A i \in 1..Len(stdout[t]) :
                  /\ Has(Printed(t, i), "success") /\ Printed(t, i)["success"] = FALSE
                  /\ Get(Printed(t, i), "results", <<>>) = <<>>
                  /\ Get(Printed(t, i), "error", None) # None

\* C9: no element of results of a response carries a direct patient
\* identifier.
NoDirectIdentifierInResults ==
    \A t \in Tasks :
        Returned(t) =>
            LET rows == Get(result[t], "results", <<>>)
            IN  \A i \in 1..Len(rows) : ~HasDirectIdentifier(rows[i])

\* C10: when the structured upstream reply carries no queryType or one
\* outside the five routed types, the response has no results, resultCount 0
\* and no charts.
UnroutableYieldsEmpty ==
    \A t \in Tasks :
        (Replied(t) /\ path[t] = "structured"
            /\ Get(reply[t].text.doc.obj, "queryType", "UNKNOWN") \notin RoutedTypes) =>
            /\ Get(result[t], "results", <<>>) = <<>>
            /\ Get(result[t], "resultCount", 0) = 0
            /\ Get(result[t], "charts", <<>>) = <<>>

\* The query type the structured upstream reply of task t carries.
ReplyQueryType(t) == Get(reply[t].text.doc.obj, "queryType", "UNKNOWN")

\* Task t was answered by the structured path.
Structured(t) == Replied(t) /\ Returned(t) /\ path[t] = "structured"

\* The sum of field f over a sequence of records.
RECURSIVE SumField(_, _)
SumField(rows, f) ==
    IF rows = <<>> THEN 0 ELSE rows[1][f] + SumField(Tail(rows), f)

\* C11: when the query type is COMPLIANCE_REPORTING, charts holds exactly one
\* chart, a bar chart with the buckets Completed, In Progress, Incomplete in
\* that order, whose values sum to the sum of the count fields of results.
ComplianceChartMatchesResults ==
    \A t \in Tasks :
        (Structured(t) /\ ReplyQueryType(t) = "COMPLIANCE_REPORTING") =>
            LET charts == result[t]["charts"]
            IN  /\ Len(charts) = 1
                /\ charts[1]["type"] = "bar"
                /\ Len(charts[1]["data"]) = 3
                /\ charts[1]["data"][1]["label"] = "Completed"
                /\ charts[1]["data"][2]["label"] = "In Progress"
                /\ charts[1]["data"][3]["label"] = "Incomplete"
                /\ SumField(charts[1]["data"], "value")
                      = SumField(result[t]["results"], "count")

\* C11 witness: a COMPLIANCE_REPORTING reply was answered with three result
\* rows and printed.
ComplianceChartWitness ==
    \E t \in Tasks :
        /\ Structured(t)
        /\ ReplyQueryType(t) = "COMPLIANCE_REPORTING"
        /\ Len(result[t]["results"]) = 3
        /\ SumField(result[t]["results"], "count") = 170
        /\ Len(stdout[t]) = 1

\* C12: when send_message raises, the response is the failure envelope of
\* the except clause: success false, error non-null, suggestions non-empty;
\* neither execute_query nor parse_natural_response contributed to it.
UpstreamFailureEnvelope ==
    \A t \in Tasks :
        (Replied(t) /\ reply[t].raises) =>
            /\ Returned(t)
            /\ result[t]["success"] = FALSE
            /\ Has(result[t], "error") /\ result[t]["error"] # None
            /\ result[t]["error"] = reply[t].exc
            /\ Len(result[t]["suggestions"]) > 0
            /\ path[t] = "exception"
            /\ DOMAIN result[t] = {"success", "error", "interpretation", "suggestions"}

\* C12 witness: an upstream call that raised was answered and printed.
UpstreamFailureWitness ==
    \E t \in Tasks :
        /\ Replied(t)
        /\ reply[t].raises
        /\ reply[t].exc = "upstream unreachable"
        /\ Returned(t)
        /\ Len(stdout[t]) = 1

\* The closed enumeration of query types.
QueryTypes == RoutedTypes \cup {"GENERAL", "UNKNOWN"}

\* Classification failed for task t: the credential was missing, the
\* upstream call raised, or the structured reply carries no queryType.
ClassificationFailed(t) ==
    \/ path[t] = "mock"
    \/ Replied(t) /\ reply[t].raises
    \/ Structured(t) /\ ~Has(reply[t].text.doc.obj, "queryType")

\* C13: the queryType field of a response is UNKNOWN when classification
\* failed and GENERAL in a fallback response, and is always one of the
\* closed enumeration.
QueryTypeDefaults ==
    \A t \in Tasks :
        Returned(t) =>
            /\ Has(result[t], "queryType") /\ result[t]["queryType"] \in QueryTypes
            /\ ClassificationFailed(t) => result[t]["queryType"] = "UNKNOWN"
            /\ path[t] = "fallback" => result[t]["queryType"] = "GENERAL"

\* The request of task t got past the credential test to the send_message
\* call: it holds a query text and the credential is set.
ReachedGateway(t) ==
    /\ pc[t] # "init"
    /\ argv[t].kind = "object"
    /\ Has(argv[t].obj, "query")
    /\ openai_api_key \notin {None, ""}

\* C14: an invocation makes at most one call to the language model and never
\* a second one after the first failed or returned text that is not JSON;
\* it makes exactly one when the credential is set and the request reaches
\* the send_message call.
AtMostOneCall ==
    \A t \in Tasks :
        /\ calls[t] <= 1
        /\ ReachedGateway(t) => calls[t] = 1
        /\ Replied(t) => calls[t] = 1

\* C14 witness: one invocation whose call raised and one whose call returned
\* text that is not JSON both ended after a single call.
AtMostOneCallWitness ==
    \E t, u \in Tasks :
        /\ Replied(t) /\ reply[t].raises /\ calls[t] = 1
        /\ Replied(u) /\ ~reply[u].raises /\ ~reply[u].text.json /\ calls[u] = 1

\* What process_query makes of request arg when it runs alone and the
\* upstream outcome is `outcome`, measured at execution_time.
Alone(arg, outcome, execution_time) ==
    LET b == process_query_begin(arg, openai_api_key, SystemMessage)
    IN  IF b.step = "await"
        THEN process_query_resume(arg, outcome, execution_time)
        ELSE b

\* C15: in every interleaving of the invocations, a suspended invocation
\* holds its own request and message, every response returned and printed
\* equals the one its request gets when run alone with the same upstream
\* outcome, and system_message keeps the value __init__ gave it.
RequestsIsolated ==
    /\ system_message = SystemMessage
    /\ \A t \in Tasks :
          /\ pc[t] = "awaiting" =>
                /\ query_data[t] = argv[t]
                /\ chat[t] = process_query_begin(argv[t], openai_api_key,
                                                 SystemMessage).message
          /\ (pc[t] = "done" /\ argv[t].kind \notin {"absent", "invalid"}) =>
                \E execution_time \in 0..MaxElapsed :
                    LET a == Alone(argv[t], reply[t], execution_time)
                    IN  /\ stdout[t] = << main_print(a) >>
                        /\ a.step = "return" =>
                              Returned(t) /\ result[t] = a.value
                        /\ a.step = "raise" => pq[t] = "raised"

\* C15 witness: two invocations with different requests were suspended in
\* send_message together; one has been answered while the other still waits.
RequestsIsolatedWitness ==
    \E t, u \in Tasks :
        /\ pc[t] = "awaiting"
        /\ calls[u] = 1 /\ Replied(u) /\ Returned(u)
        /\ query_data[t].obj["query"] # query_data[u].obj["query"]
        /\ Len(stdout[u]) = 1

\* C16: for the five routed query types results and resultCount depend on
\* the query type alone: two structured replies of the same routed type give
\* the same results and resultCount, whatever their query spec, their own
\* results and the request they answer.
RoutedResultsByTypeAlone ==
    \A t, u \in Tasks :
        (Structured(t) /\ Structured(u)
            /\ ReplyQueryType(t) \in RoutedTypes
            /\ ReplyQueryType(t) = ReplyQueryType(u)) =>
            /\ result[t]["results"] = result[u]["results"]
            /\ result[t]["resultCount"] = result[u]["resultCount"]
            /\ result[t]["resultCount"] = Len(result[t]["results"])

\* C16 witness: two requests with different texts were answered from two
\* replies of the same routed type that differ in query spec and in the
\* results they brought.
RoutedResultsWitness ==
    \E t, u \in Tasks :
        /\ Structured(t) /\ Structured(u)
        /\ ReplyQueryType(t) = "PATIENT_SEARCH"
        /\ ReplyQueryType(u) = "PATIENT_SEARCH"
        /\ reply[t].text.doc.obj["mongoQuery"] # reply[u].text.doc.obj["mongoQuery"]
        /\ Len(reply[t].text.doc.obj["results"]) # Len(reply[u].text.doc.obj["results"])
        /\ query_data[t].obj["query"] # query_data[u].obj["query"]
        /\ Get(query_data[t].obj, "userRole", "staff") # Get(query_data[u].obj, "userRole", "staff")
        /\ Len(result[t]["results"]) = 4

\* C17: in the fallback envelope summary is the raw text itself when that has
\* at most 200 characters, and otherwise its first 200 characters followed
\* by "..."; it never exceeds 203 characters, and the single results record
\* holds the whole raw text.
SummaryIsBoundedPrefix ==
    \A t \in Tasks :
        (Replied(t) /\ Returned(t) /\ path[t] = "fallback") =>
            LET raw     == reply[t].text.chars
                summary == result[t]["summary"]
            IN  /\ Len(raw) <= 200 => summary = raw
                /\ Len(raw) > 200 =>
                      /\ Len(summary) = 203
                      /\ \A i \in 1..200 : summary[i] = raw[i]
                      /\ \A i \in 201..203 : summary[i] = "."
                /\ Len(summary) <= 203
                /\ result[t]["results"] = << [response |-> raw] >>

\* C17 witness: a text of more than 200 characters was answered with a
\* truncated summary, and a text of exactly 200 with the text itself.
SummaryIsBoundedPrefixWitness ==
    \E t, u \in Tasks :
        /\ Replied(t) /\ path[t] = "fallback"
        /\ Len(reply[t].text.chars) = 201
        /\ Len(result[t]["summary"]) = 203
        /\ Len(result[t]["results"][1]["response"]) = 201
        /\ Replied(u) /\ path[u] = "fallback"
        /\ Len(reply[u].text.chars) = 200
        /\ Len(result[u]["summary"]) = 200

====
